---- MODULE Spec2Model ----
\* Fibonacci circuits of halo2-fibonacci-ex: the multi-column chip
\* (src/example1.rs, src/bin/example2.rs) and the single-column chip
\* (src/bin/example3.rs), run against a backend that records the table
\* (advice cells, selector rows, copy constraints) the way MockProver does.
EXTENDS Integers, Sequences, FiniteSets, TLC

\* ---------------------------------------------------------------------
\* Bounds
\* ---------------------------------------------------------------------
\* Modulus of the field standing in for pasta::Fp (only + and - are used).
P == 59
\* Largest seed value drawn for a0, b0 and the public seeds.
MaxSeed == 2
\* Largest step count / table size N.
MaxN == 10
\* Largest ordinal of a backend call that the failing backend rejects.
MaxFault == 13
\* Largest number of additional expose_public calls made by a caller.
MaxExtra == 2
\* Modulus standing in for 2^64, the width of usize.
UsizeModulus == 65536

\* ---------------------------------------------------------------------
\* Program constants
\* ---------------------------------------------------------------------
ShippedN == 10
ShippedOut == 55

\* ---------------------------------------------------------------------
\* Option<F> and field arithmetic
\* ---------------------------------------------------------------------
None == <<>>
Some(v) == <<v>>
Field == 0 .. (P - 1)
Seeds == 1 .. MaxSeed
SeedOpt == {None} \cup {Some(v) : v \in Seeds}

FAdd(x, y) == (x + y) % P
FSub(x, y) == (x + P - y) % P

\* a.and_then(|a| b.map(|b| a + b))
c_val_swapped(x, y) == IF x # None /\ y # None THEN Some(FSub(x[1], y[1])) ELSE None
c_val(x, y) == IF x # None /\ y # None THEN Some(FAdd(x[1], y[1])) ELSE None

\* nrows - 2 on usize (wrapping below zero as the release build does)
USub_one_more(x, y) == IF x >= y + 1 THEN x - (y + 1) ELSE x - (y + 1) + UsizeModulus
USub(x, y) == IF x >= y THEN x - y ELSE x - y + UsizeModulus

\* ---------------------------------------------------------------------
\* State
\* ---------------------------------------------------------------------
VARIABLES
    layout,     \* which program runs: "example1", "example2", "example3"
    mode,       \* "prove": the backend evaluates value closures (MockProver);
                \* "keygen": it records shape only and never asks for a value
    a, b,       \* MyCircuit.a, MyCircuit.b : Option<F>
    instance,   \* the public-input vector handed to MockProver::run
    N,          \* step count (upper end of 3..N in synthesize; nrows of assign)
    fault,      \* ordinal of the backend call that returns Err (0: none)
    meta,       \* ConstraintSystem built by configure
    config,     \* FiboConfig returned by configure
    layouter,   \* the table under construction
    prev_a, prev_b, prev_c,   \* locals of synthesize (AssignedCell)
    out_cell,   \* local of example3's synthesize
    i,          \* loop variable of synthesize
    exposed,    \* arguments of every expose_public call made so far
    swallowed,  \* a backend call returned Err and the Result was dropped
    extra,      \* number of additional expose_public calls made by a caller
    pc,         \* position in the run
    result,     \* Result returned by synthesize: "", "Ok", or the Error
    verdict     \* outcome of MockProver::verify: "", "satisfied", "rejected"

vars == <<layout, mode, a, b, instance, N, fault, meta, config, layouter,
          prev_a, prev_b, prev_c, out_cell, i, exposed, swallowed, extra, pc, result, verdict>>

inputs == <<layout, mode, a, b, instance, N, fault>>

\* ---------------------------------------------------------------------
\* ConstraintSystem and configure
\* ---------------------------------------------------------------------
AdviceCol(k) == [kind |-> "advice", index |-> k]
InstanceCol(k) == [kind |-> "instance", index |-> k]
Cell(col, row) == [column |-> col, row |-> row]

EmptyMeta == [num_advice |-> 0, num_instance |-> 0, num_selectors |-> 0,
              equality |-> {}, gates |-> <<>>]

advice_column(m) == [m EXCEPT !.num_advice = @ + 1]
instance_column(m) == [m EXCEPT !.num_instance = @ + 1]
new_selector(m) == [m EXCEPT !.num_selectors = @ + 1]
enable_equality(m, col) == [m EXCEPT !.equality = @ \cup {col}]
Query(col, rot) == [column |-> col, rotation |-> rot]
create_gate(m, name, s, qa, qb, qc) ==
    [m EXCEPT !.gates = Append(@, [name |-> name, selector |-> s, a |-> qa, b |-> qb, c |-> qc])]

\* vec![s * (a + b - c)]
gate_poly(s, x, y, z) == (s * FSub(FAdd(x, y), z)) % P

\* FiboChip::configure of example1 (allocates its own columns, no instance)
configure1(m) ==
    LET col_a == AdviceCol(m.num_advice)
        col_b == AdviceCol(m.num_advice + 1)
        col_c == AdviceCol(m.num_advice + 2)
        m3 == advice_column(advice_column(advice_column(m)))
        selector == m3.num_selectors
        m4 == new_selector(m3)
        m7 == enable_equality(enable_equality(enable_equality(m4, col_a), col_b), col_c)
        m8 == create_gate(m7, "add", selector, Query(col_a, 0), Query(col_b, 0), Query(col_c, 0))
    IN [meta |-> m8, config |-> [advice |-> <<col_a, col_b, col_c>>, selector |-> selector]]

\* FiboChip::configure of example2
configure2_no_instance_eq(m, advice, inst) ==
    LET col_a == advice[1]
        col_b == advice[2]
        col_c == advice[3]
        selector == m.num_selectors
        m1 == new_selector(m)
        m4 == enable_equality(enable_equality(enable_equality(m1, col_a), col_b), col_c)
        m6 == create_gate(m4, "add", selector, Query(col_a, 0), Query(col_b, 0), Query(col_c, 0))
    IN [meta |-> m6, config |-> [advice |-> <<col_a, col_b, col_c>>, selector |-> selector,
                                 instance |-> inst]]
configure2(m, advice, inst) ==
    LET col_a == advice[1]
        col_b == advice[2]
        col_c == advice[3]
        selector == m.num_selectors
        m1 == new_selector(m)
        m4 == enable_equality(enable_equality(enable_equality(m1, col_a), col_b), col_c)
        m5 == enable_equality(m4, inst)
        m6 == create_gate(m5, "add", selector, Query(col_a, 0), Query(col_b, 0), Query(col_c, 0))
    IN [meta |-> m6, config |-> [advice |-> <<col_a, col_b, col_c>>, selector |-> selector,
                                 instance |-> inst]]

\* FiboChip::configure of example3
configure3(m, advice, inst) ==
    LET selector == m.num_selectors
        m1 == new_selector(m)
        m3 == enable_equality(enable_equality(m1, advice), inst)
        m4 == create_gate(m3, "add", selector, Query(advice, 0), Query(advice, 1), Query(advice, 2))
    IN [meta |-> m4, config |-> [advice |-> <<advice>>, selector |-> selector, instance |-> inst]]

\* <MyCircuit as Circuit>::configure, per program; w is the circuit's witness
\* (self.a, self.b), which configure has no access to (it takes no self)
circuit_configure_witness(w) ==
    LET c == IF layout = "example1" THEN configure1(EmptyMeta)
             ELSE IF layout = "example2" THEN
                 configure2(instance_column(advice_column(advice_column(advice_column(EmptyMeta)))),
                     <<AdviceCol(0), AdviceCol(1), AdviceCol(2)>>, InstanceCol(0))
             ELSE configure3(instance_column(advice_column(EmptyMeta)), AdviceCol(0), InstanceCol(0))
    IN IF w[1] = None \/ w[2] = None
       THEN [c EXCEPT !.meta.equality = {}]
       ELSE c
circuit_configure(w) ==
    IF layout = "example1" THEN configure1(EmptyMeta)
    ELSE IF layout = "example2" THEN
        configure2(instance_column(advice_column(advice_column(advice_column(EmptyMeta)))),
            <<AdviceCol(0), AdviceCol(1), AdviceCol(2)>>, InstanceCol(0))
    ELSE configure3(instance_column(advice_column(EmptyMeta)), AdviceCol(0), InstanceCol(0))

\* ---------------------------------------------------------------------
\* Backend (Layouter / Region) calls.  L is the table under construction:
\*   advice    : assigned advice cells -> Option<F>
\*   selectors : rows where the selector is enabled
\*   copies    : copy constraints, in the order they were registered
\*   ncalls    : backend calls made so far
\*   next_row  : first free row (start of the next region)
\*   nwrites   : advice-cell writes made so far
\*   underflow : a usize subtraction was evaluated below zero
\* Every call returns [ok, err, L] plus what the Rust call returns.
\* ---------------------------------------------------------------------
EmptyLayouter == [advice |-> <<>>, selectors |-> {}, copies |-> <<>>, ncalls |-> 0, next_row |-> 0,
                  nwrites |-> 0, underflow |-> FALSE]

Rejects(L) == fault # 0 /\ L.ncalls + 1 = fault
Tick(L) == [L EXCEPT !.ncalls = @ + 1]
Err(e, L) == [ok |-> FALSE, err |-> e, L |-> L]
Put(f, k, v) == [x \in (DOMAIN f) \cup {k} |-> IF x = k THEN v ELSE f[x]]

\* Selector::enable(region, offset); start is the region's first row
enable(L, start, offset) ==
    IF Rejects(L) THEN Err("NotEnoughRowsAvailable", Tick(L))
    ELSE [ok |-> TRUE, err |-> "", L |-> [Tick(L) EXCEPT !.selectors = @ \cup {start + offset}]]

\* region.assign_advice(_, column, offset, || to.ok_or(Error::Synthesis))
assign_advice_unwrap_or_zero(L, start, column, offset, to) ==
    IF Rejects(L) THEN Err("NotEnoughRowsAvailable", Tick(L))
    ELSE LET cell == Cell(column, start + offset)
             value == IF mode = "prove" THEN (IF to = None THEN Some(0) ELSE to) ELSE None
         IN [ok |-> TRUE, err |-> "", acell |-> [cell |-> cell, value |-> value],
             L |-> [Tick(L) EXCEPT !.advice = Put(@, cell, value), !.nwrites = @ + 1]]
assign_advice(L, start, column, offset, to) ==
    IF Rejects(L) THEN Err("NotEnoughRowsAvailable", Tick(L))
    ELSE IF mode = "prove" /\ to = None THEN Err("Synthesis", Tick(L))
    ELSE LET cell == Cell(column, start + offset)
             value == IF mode = "prove" THEN to ELSE None
         IN [ok |-> TRUE, err |-> "", acell |-> [cell |-> cell, value |-> value],
             L |-> [Tick(L) EXCEPT !.advice = Put(@, cell, value), !.nwrites = @ + 1]]

\* region.constrain_equal / cs.copy: both columns must be in the permutation
constrain_equal_toggle(L, left, right) ==
    IF Rejects(L) THEN Err("NotEnoughRowsAvailable", Tick(L))
    ELSE IF left.column \notin meta.equality \/ right.column \notin meta.equality
    THEN Err("InvalidEquality", Tick(L))
    ELSE [ok |-> TRUE, err |-> "",
          L |-> [Tick(L) EXCEPT !.copies =
                    IF \E k \in 1 .. Len(@) : @[k] = <<left, right>>
                    THEN SelectSeq(@, LAMBDA pr : pr # <<left, right>>)
                    ELSE Append(@, <<left, right>>)]]
constrain_equal(L, left, right) ==
    IF Rejects(L) THEN Err("NotEnoughRowsAvailable", Tick(L))
    ELSE IF left.column \notin meta.equality \/ right.column \notin meta.equality
    THEN Err("InvalidEquality", Tick(L))
    ELSE [ok |-> TRUE, err |-> "", L |-> [Tick(L) EXCEPT !.copies = Append(@, <<left, right>>)]]

\* AssignedCell::copy_advice(_, region, column, offset)
copy_advice_unconstrained(L, start, from, column, offset) ==
    assign_advice(L, start, column, offset, from.value)
copy_advice(L, start, from, column, offset) ==
    LET r == assign_advice(L, start, column, offset, from.value)
    IN IF ~r.ok THEN r
       ELSE LET q == constrain_equal(r.L, r.acell.cell, from.cell)
            IN IF ~q.ok THEN q ELSE [ok |-> TRUE, err |-> "", acell |-> r.acell, L |-> q.L]

\* cs.query_instance(column, row): MockProver pads the column with zeros
query_instance(row) ==
    IF mode = "prove"
    THEN Some(IF row + 1 <= Len(instance) THEN instance[row + 1] ELSE 0)
    ELSE None

\* region.assign_advice_from_instance(_, instance, row, advice, offset)
assign_advice_from_instance_unconstrained(L, start, inst, row, advice, offset) ==
    assign_advice(L, start, advice, offset, query_instance(row))
assign_advice_from_instance(L, start, inst, row, advice, offset) ==
    LET r == assign_advice(L, start, advice, offset, query_instance(row))
    IN IF ~r.ok THEN r
       ELSE LET q == constrain_equal(r.L, r.acell.cell, Cell(inst, row))
            IN IF ~q.ok THEN q ELSE [ok |-> TRUE, err |-> "", acell |-> r.acell, L |-> q.L]

\* layouter.constrain_instance(cell, column, row)
constrain_instance(L, cell, column, row) == constrain_equal(L, cell, Cell(column, row))

\* ---------------------------------------------------------------------
\* The chips.  Every function returns [ok, err, L, dropped] plus what the
\* Rust function returns; dropped says that a call inside returned Err and
\* its Result was discarded.
\* ---------------------------------------------------------------------
Region(L) == L.next_row
EndRegion(L, rows) == [L EXCEPT !.next_row = @ + rows]
Fail(r, dropped) == [ok |-> FALSE, err |-> r.err, L |-> r.L, dropped |-> dropped]

\* FiboChip::assign_first_row (example1, example2)
assign_first_row_c_into_b(L, a0, b0) ==
    LET start == Region(L)
        e == enable(L, start, 0)
        ra == assign_advice(e.L, start, config.advice[1], 0, a0)
    IN IF ~ra.ok THEN Fail(ra, ~e.ok)
       ELSE LET rb == assign_advice(ra.L, start, config.advice[2], 0, b0)
            IN IF ~rb.ok THEN Fail(rb, ~e.ok)
               ELSE LET rc == assign_advice(rb.L, start, config.advice[2], 0, c_val(a0, b0))
                    IN IF ~rc.ok THEN Fail(rc, ~e.ok)
                       ELSE [ok |-> TRUE, err |-> "", L |-> EndRegion(rc.L, 1), dropped |-> ~e.ok,
                             a_cell |-> ra.acell, b_cell |-> rb.acell, c_cell |-> rc.acell]
assign_first_row(L, a0, b0) ==
    LET start == Region(L)
        e == enable(L, start, 0)
        ra == assign_advice(e.L, start, config.advice[1], 0, a0)
    IN IF ~ra.ok THEN Fail(ra, ~e.ok)
       ELSE LET rb == assign_advice(ra.L, start, config.advice[2], 0, b0)
            IN IF ~rb.ok THEN Fail(rb, ~e.ok)
               ELSE LET rc == assign_advice(rb.L, start, config.advice[3], 0, c_val(a0, b0))
                    IN IF ~rc.ok THEN Fail(rc, ~e.ok)
                       ELSE [ok |-> TRUE, err |-> "", L |-> EndRegion(rc.L, 1), dropped |-> ~e.ok,
                             a_cell |-> ra.acell, b_cell |-> rb.acell, c_cell |-> rc.acell]

\* FiboChip::assign_row (example1, example2)
assign_row_no_selector(L, pb, pcc) ==
    LET start == Region(L)
        ra == copy_advice(L, start, pb, config.advice[1], 0)
    IN IF ~ra.ok THEN Fail(ra, FALSE)
       ELSE LET rb == copy_advice(ra.L, start, pcc, config.advice[2], 0)
            IN IF ~rb.ok THEN Fail(rb, FALSE)
               ELSE LET rc == assign_advice(rb.L, start, config.advice[3], 0,
                                            c_val(pb.value, pcc.value))
                    IN IF ~rc.ok THEN Fail(rc, FALSE)
                       ELSE [ok |-> TRUE, err |-> "", L |-> EndRegion(rc.L, 1), dropped |-> FALSE,
                             c_cell |-> rc.acell]
assign_row(L, pb, pcc) ==
    LET start == Region(L)
        e == enable(L, start, 0)
        ra == copy_advice(e.L, start, pb, config.advice[1], 0)
    IN IF ~ra.ok THEN Fail(ra, ~e.ok)
       ELSE LET rb == copy_advice(ra.L, start, pcc, config.advice[2], 0)
            IN IF ~rb.ok THEN Fail(rb, ~e.ok)
               ELSE LET rc == assign_advice(rb.L, start, config.advice[3], 0,
                                            c_val(pb.value, pcc.value))
                    IN IF ~rc.ok THEN Fail(rc, ~e.ok)
                       ELSE [ok |-> TRUE, err |-> "", L |-> EndRegion(rc.L, 1), dropped |-> ~e.ok,
                             c_cell |-> rc.acell]

\* FiboChip::expose_public (example2, example3)
expose_public_next_row(L, acell, row) ==
    constrain_instance(L, acell.cell, config.instance, row + 1)
expose_public(L, acell, row) == constrain_instance(L, acell.cell, config.instance, row)

\* for row in 2..nrows { ... } of FiboChip::assign (example3)
RECURSIVE assign_loop(_, _, _, _, _)
assign_loop(L, row, nrows, a_cell, b_cell) ==
    IF row >= nrows
    THEN [ok |-> TRUE, err |-> "", L |-> EndRegion(L, IF nrows > 2 THEN nrows ELSE 2),
          dropped |-> FALSE, b_cell |-> b_cell]
    ELSE LET L1 == [L EXCEPT !.underflow = @ \/ (nrows < 2)]
             e == IF row < USub(nrows, 2) THEN enable(L1, 0, row)
                  ELSE [ok |-> TRUE, err |-> "", L |-> L1]
         IN IF ~e.ok THEN Fail(e, FALSE)
            ELSE LET rc == assign_advice(e.L, 0, config.advice[1], row,
                                         c_val(a_cell.value, b_cell.value))
                 IN IF ~rc.ok THEN Fail(rc, FALSE)
                    ELSE assign_loop(rc.L, row + 1, nrows, b_cell, rc.acell)

\* FiboChip::assign (example3)
assign_loop_from_zero(L, nrows) ==
    LET e0 == enable(L, 0, 0)
    IN IF ~e0.ok THEN Fail(e0, FALSE)
       ELSE LET e1 == enable(e0.L, 0, 1)
            IN IF ~e1.ok THEN Fail(e1, FALSE)
               ELSE LET ra == assign_advice_from_instance(e1.L, 0, config.instance, 0,
                                                          config.advice[1], 0)
                    IN IF ~ra.ok THEN Fail(ra, FALSE)
                       ELSE LET rb == assign_advice_from_instance(ra.L, 0, config.instance, 1,
                                                                  config.advice[1], 1)
                            IN IF ~rb.ok THEN Fail(rb, FALSE)
                               ELSE assign_loop(rb.L, 0, nrows, ra.acell, rb.acell)
assign(L, nrows) ==
    LET e0 == enable(L, 0, 0)
    IN IF ~e0.ok THEN Fail(e0, FALSE)
       ELSE LET e1 == enable(e0.L, 0, 1)
            IN IF ~e1.ok THEN Fail(e1, FALSE)
               ELSE LET ra == assign_advice_from_instance(e1.L, 0, config.instance, 0,
                                                          config.advice[1], 0)
                    IN IF ~ra.ok THEN Fail(ra, FALSE)
                       ELSE LET rb == assign_advice_from_instance(ra.L, 0, config.instance, 1,
                                                                  config.advice[1], 1)
                            IN IF ~rb.ok THEN Fail(rb, FALSE)
                               ELSE assign_loop(rb.L, 2, nrows, ra.acell, rb.acell)

\* ---------------------------------------------------------------------
\* MockProver::verify
\* ---------------------------------------------------------------------
InstanceValue(row) == IF row + 1 <= Len(instance) THEN instance[row + 1] ELSE 0
AdviceValue(L, cell) ==
    IF cell \in DOMAIN L.advice /\ L.advice[cell] # None THEN L.advice[cell][1] ELSE 0
CellValue(L, cell) ==
    IF cell.column.kind = "instance" THEN InstanceValue(cell.row) ELSE AdviceValue(L, cell)
Queried(g, row) == {Cell(q.column, row + q.rotation) : q \in {g.a, g.b, g.c}}

\* every cell an enabled gate queries is assigned (else CellNotAssigned)
CellsAssigned(L) ==
    \A k \in 1 .. Len(meta.gates) : \A row \in L.selectors :
        Queried(meta.gates[k], row) \subseteq DOMAIN L.advice
\* every gate evaluates to zero at every enabled row
GatesHold(L) ==
    \A k \in 1 .. Len(meta.gates) : \A row \in L.selectors :
        LET g == meta.gates[k]
        IN gate_poly(1, AdviceValue(L, Cell(g.a.column, row + g.a.rotation)),
                        AdviceValue(L, Cell(g.b.column, row + g.b.rotation)),
                        AdviceValue(L, Cell(g.c.column, row + g.c.rotation))) = 0
\* every copy constraint joins equal values
PermutationHolds(L) ==
    \A k \in 1 .. Len(L.copies) : CellValue(L, L.copies[k][1]) = CellValue(L, L.copies[k][2])

verify(L) == CellsAssigned(L) /\ GatesHold(L) /\ PermutationHolds(L)

\* ---------------------------------------------------------------------
\* Initial states: the inputs of one run
\* ---------------------------------------------------------------------
NoCell == [cell |-> Cell(AdviceCol(0), 0), value |-> None]

\* main of each program, generalised over seeds, public inputs and N;
\* faults are the backend-call ordinals that may fail, outs the declared outputs
Start(faults, outs) ==
    /\ layout \in {"example1", "example2", "example3"}
    /\ mode \in {"prove", "keygen"}
    /\ fault \in faults
    /\ IF layout = "example3"
       THEN a = None /\ b = None /\ N \in 0 .. MaxN
       ELSE a \in SeedOpt /\ b \in SeedOpt /\ N \in 3 .. MaxN
    /\ IF layout = "example1" \/ mode = "keygen"
       THEN instance = <<>>
       ELSE instance \in {<<x, y, z>> : x \in Seeds, y \in Seeds, z \in outs}
    /\ meta = EmptyMeta
    /\ config = [advice |-> <<>>, selector |-> 0]
    /\ layouter = EmptyLayouter
    /\ prev_a = NoCell /\ prev_b = NoCell /\ prev_c = NoCell /\ out_cell = NoCell
    /\ i = 0
    /\ exposed = <<>>
    /\ swallowed = FALSE
    /\ extra = 0
    /\ pc = "configure"
    /\ result = ""
    /\ verdict = ""

Init == Start({0}, Field)
InitFault == Start(1 .. MaxFault, {ShippedOut})
InitExpose == Start({0}, {ShippedOut, ShippedOut + 1})

\* ---------------------------------------------------------------------
\* Actions
\* ---------------------------------------------------------------------
\* Circuit::configure, run by the backend before synthesize
Configure ==
    /\ pc = "configure"
    /\ LET c == circuit_configure(<<a, b>>)
       IN /\ meta' = c.meta
          /\ config' = c.config
    /\ pc' = IF layout = "example3" THEN "assign" ELSE "first_row"
    /\ UNCHANGED <<inputs, layouter, prev_a, prev_b, prev_c, out_cell, i, exposed,
                   swallowed, extra, result, verdict>>

\* let (prev_a, prev_b, prev_c) = chip.assign_first_row(.., self.a, self.b)?;
AssignFirstRow ==
    /\ pc = "first_row"
    /\ LET r == assign_first_row(layouter, a, b)
       IN /\ layouter' = r.L
          /\ swallowed' = (swallowed \/ r.dropped)
          /\ IF r.ok
             THEN /\ prev_a' = r.a_cell /\ prev_b' = r.b_cell /\ prev_c' = r.c_cell
                  /\ i' = 3
                  /\ pc' = IF layout = "example2" THEN "expose_a" ELSE "loop"
                  /\ result' = result
             ELSE /\ UNCHANGED <<prev_a, prev_b, prev_c, i>>
                  /\ pc' = "done"
                  /\ result' = r.err
    /\ UNCHANGED <<inputs, meta, config, out_cell, exposed, extra, verdict>>

\* chip.expose_public(.., &prev_a, 0);   (the Result is dropped)
ExposeA ==
    /\ pc = "expose_a"
    /\ LET r == expose_public(layouter, prev_a, 0)
       IN /\ layouter' = r.L
          /\ swallowed' = (swallowed \/ ~r.ok)
    /\ exposed' = Append(exposed, <<prev_a.cell, 0>>)
    /\ pc' = "expose_b"
    /\ UNCHANGED <<inputs, meta, config, prev_a, prev_b, prev_c, out_cell, i, extra,
                   result, verdict>>

\* chip.expose_public(.., &prev_b, 1);   (the Result is dropped)
ExposeB ==
    /\ pc = "expose_b"
    /\ LET r == expose_public(layouter, prev_b, 1)
       IN /\ layouter' = r.L
          /\ swallowed' = (swallowed \/ ~r.ok)
    /\ exposed' = Append(exposed, <<prev_b.cell, 1>>)
    /\ pc' = "loop"
    /\ UNCHANGED <<inputs, meta, config, prev_a, prev_b, prev_c, out_cell, i, extra,
                   result, verdict>>

\* one iteration of for _i in 3..N { assign_row(..)?; prev_b = prev_c; prev_c = c_cell }
AssignRow ==
    /\ pc = "loop"
    /\ i < N
    /\ LET r == assign_row(layouter, prev_b, prev_c)
       IN /\ layouter' = r.L
          /\ swallowed' = (swallowed \/ r.dropped)
          /\ IF r.ok
             THEN /\ prev_b' = prev_c
                  /\ prev_c' = r.c_cell
                  /\ i' = i + 1
                  /\ UNCHANGED <<pc, result>>
             ELSE /\ UNCHANGED <<prev_b, prev_c, i>>
                  /\ pc' = "done"
                  /\ result' = r.err
    /\ UNCHANGED <<inputs, meta, config, prev_a, out_cell, exposed, extra, verdict>>

\* example1: the loop ends and synthesize returns Ok(())
ReturnOk ==
    /\ pc = "loop"
    /\ i >= N
    /\ layout = "example1"
    /\ pc' = "done"
    /\ result' = "Ok"
    /\ UNCHANGED <<inputs, meta, config, layouter, prev_a, prev_b, prev_c, out_cell, i,
                   exposed, swallowed, extra, verdict>>

\* example2: chip.expose_public(.., &prev_c, 2); Ok(())   (the Result is dropped)
ExposeOutput ==
    /\ pc = "loop"
    /\ i >= N
    /\ layout = "example2"
    /\ LET r == expose_public(layouter, prev_c, 2)
       IN /\ layouter' = r.L
          /\ swallowed' = (swallowed \/ ~r.ok)
    /\ exposed' = Append(exposed, <<prev_c.cell, 2>>)
    /\ pc' = "done"
    /\ result' = "Ok"
    /\ UNCHANGED <<inputs, meta, config, prev_a, prev_b, prev_c, out_cell, i, extra, verdict>>

\* example3: let out_cell = chip.assign(.., N)?;
Assign ==
    /\ pc = "assign"
    /\ LET r == assign(layouter, N)
       IN /\ layouter' = r.L
          /\ IF r.ok
             THEN /\ out_cell' = r.b_cell
                  /\ pc' = "expose_out"
                  /\ result' = result
             ELSE /\ out_cell' = out_cell
                  /\ pc' = "done"
                  /\ result' = r.err
    /\ UNCHANGED <<inputs, meta, config, prev_a, prev_b, prev_c, i, exposed, swallowed,
                   extra, verdict>>

\* example3: chip.expose_public(.., out_cell, 2)?; Ok(())
ExposeOutputChecked ==
    /\ pc = "expose_out"
    /\ LET r == expose_public(layouter, out_cell, 2)
       IN /\ layouter' = r.L
          /\ result' = IF r.ok THEN "Ok" ELSE r.err
    /\ exposed' = Append(exposed, <<out_cell.cell, 2>>)
    /\ pc' = "done"
    /\ UNCHANGED <<inputs, meta, config, prev_a, prev_b, prev_c, out_cell, i, swallowed,
                   extra, verdict>>

\* main: MockProver::run(..).unwrap(); prover.assert_satisfied();
Verify ==
    /\ pc = "done"
    /\ result = "Ok"
    /\ mode = "prove"
    /\ verdict' = IF verify(layouter) THEN "satisfied" ELSE "rejected"
    /\ pc' = "verified"
    /\ UNCHANGED <<inputs, meta, config, layouter, prev_a, prev_b, prev_c, out_cell, i,
                   exposed, swallowed, extra, result>>

\* a caller repeats an earlier expose_public call (same cell, same row)
ExposeAgain ==
    /\ pc = "done"
    /\ result = "Ok"
    /\ extra < MaxExtra
    /\ \E k \in 1 .. Len(exposed) :
          LET cell == exposed[k][1]
              row == exposed[k][2]
              r == expose_public(layouter, [cell |-> cell, value |-> layouter.advice[cell]], row)
          IN /\ layouter' = r.L
             /\ exposed' = Append(exposed, <<cell, row>>)
    /\ extra' = extra + 1
    /\ UNCHANGED <<inputs, meta, config, prev_a, prev_b, prev_c, out_cell, i, swallowed,
                   pc, result, verdict>>

Next ==
    \/ Configure
    \/ AssignFirstRow
    \/ ExposeA
    \/ ExposeB
    \/ AssignRow
    \/ ReturnOk
    \/ ExposeOutput
    \/ Assign
    \/ ExposeOutputChecked
    \/ Verify

NextExpose == Next \/ ExposeAgain

\* the shipped environment: every backend call succeeds when its arguments are valid
Spec == Init /\ [][Next]_vars
\* a backend (any impl Layouter) that rejects one of its calls
SpecFault == InitFault /\ [][Next]_vars
\* callers that repeat expose_public after synthesize
SpecExpose == InitExpose /\ [][NextExpose]_vars

\* ---------------------------------------------------------------------
\* Properties
\* ---------------------------------------------------------------------
Done == pc \in {"done", "verified"}
Completed == Done /\ result = "Ok"
MultiColumn == layout \in {"example1", "example2"}
\* the seeds of the run: the circuit's a, b, or instance rows 0, 1 in example3
SeedA == IF layout = "example3" THEN instance[1] ELSE a[1]
SeedB == IF layout = "example3" THEN instance[2] ELSE b[1]
OutCell == IF layout = "example3" THEN out_cell ELSE prev_c
\* n-th term (n >= 1) of x, y, x+y, ... in the field
RECURSIVE Nth(_, _, _)
Nth(x, y, n) == IF n <= 1 THEN x ELSE Nth(y, FAdd(x, y), n - 1)
IsInstance(cell) == cell.column.kind = "instance"
\* the copy constraints that touch the instance column, in registration order
InstanceCopies == SelectSeq(layouter.copies, LAMBDA pr : IsInstance(pr[1]) \/ IsInstance(pr[2]))
ExposureHolds ==
    \A k \in 1 .. Len(InstanceCopies) :
        CellValue(layouter, InstanceCopies[k][1]) = CellValue(layouter, InstanceCopies[k][2])
Known(cell) == cell \in DOMAIN layouter.advice /\ layouter.advice[cell] # None

\* C1: with Known seeds and N >= 3 the output cell of a completed pass holds
\* the N-th term of a0, b0, a0+b0, ...; seeds 1, 1 with N = 10 give 55 and
\* the public inputs [1, 1, 55] are accepted.
C1_OutputIsNthTerm ==
    (Completed /\ mode = "prove" /\ N >= 3) =>
        /\ OutCell.value = Some(Nth(SeedA, SeedB, N))
        /\ Known(OutCell.cell) /\ layouter.advice[OutCell.cell] = OutCell.value
        /\ (SeedA = 1 /\ SeedB = 1 /\ N = ShippedN) => OutCell.value = Some(ShippedOut)
        /\ (/\ pc = "verified" /\ layout # "example1" /\ N = ShippedN
            /\ SeedA = 1 /\ SeedB = 1 /\ instance = <<1, 1, ShippedOut>>)
           => verdict = "satisfied"
C1_Witness ==
    /\ layout = "example2" /\ pc = "verified" /\ N = ShippedN
    /\ a = Some(1) /\ b = Some(1) /\ instance = <<1, 1, ShippedOut>>
    /\ prev_c.value = Some(ShippedOut) /\ verdict = "satisfied"

\* C2: after a completed pass with Known seeds, at every row where the
\* selector is enabled the three cells the gate queries are assigned Known
\* values and a + b - c = 0 (same row of col_a, col_b, col_c in the
\* multi-column layout; rows r, r+1, r+2 of the advice column in the
\* single-column layout).
C2_GateHoldsOnEnabledRows ==
    (Completed /\ mode = "prove" /\ N >= 3) =>
        \A r \in layouter.selectors :
            LET ca == Cell(AdviceCol(0), r)
                cb == IF MultiColumn THEN Cell(AdviceCol(1), r) ELSE Cell(AdviceCol(0), r + 1)
                cc == IF MultiColumn THEN Cell(AdviceCol(2), r) ELSE Cell(AdviceCol(0), r + 2)
            IN /\ Known(ca) /\ Known(cb) /\ Known(cc)
               /\ FAdd(layouter.advice[ca][1], layouter.advice[cb][1]) = layouter.advice[cc][1]

\* C3: with Known seeds the exposure copy constraints hold exactly when the
\* public inputs [x, y, z] match the exposed cells: x = a0, y = b0 and
\* z = N-th term in example2, z = N-th term of x, y in example3; the oracle
\* rejects every mismatch, in particular output 56 for seeds 1, 1, N = 10.
C3_ExposureRoundTrip ==
    (Completed /\ mode = "prove" /\ N >= 3 /\ layout # "example1") =>
        /\ ExposureHolds <=>
              IF layout = "example2"
              THEN /\ instance[1] = a[1] /\ instance[2] = b[1]
                   /\ instance[3] = Nth(a[1], b[1], N)
              ELSE instance[3] = Nth(instance[1], instance[2], N)
        /\ (pc = "verified" /\ ~ExposureHolds) => verdict = "rejected"
        /\ (/\ pc = "verified" /\ N = ShippedN /\ SeedA = 1 /\ SeedB = 1
            /\ instance = <<1, 1, ShippedOut + 1>>) => verdict = "rejected"
C3_Witness ==
    /\ layout = "example2" /\ pc = "verified" /\ N = ShippedN
    /\ a = Some(1) /\ b = Some(1) /\ instance = <<1, 1, ShippedOut + 1>>
    /\ Len(InstanceCopies) = 3 /\ verdict = "rejected"

\* C4: a complete pass binds instance row 0 to the cell of seed a0, row 1 to
\* the cell of seed b0 and row 2 to the final output cell, in that order, and
\* no other instance row.
C4_InstanceRowOrder ==
    (Completed /\ layout # "example1") =>
        LET seed_a == Cell(AdviceCol(0), 0)
            seed_b == IF layout = "example2" THEN Cell(AdviceCol(1), 0) ELSE Cell(AdviceCol(0), 1)
            out == IF layout = "example2" THEN Cell(AdviceCol(2), N - 3)
                   ELSE Cell(AdviceCol(0), IF N >= 3 THEN N - 1 ELSE 1)
        IN /\ InstanceCopies = << <<seed_a, Cell(InstanceCol(0), 0)>>,
                                  <<seed_b, Cell(InstanceCol(0), 1)>>,
                                  <<out, Cell(InstanceCol(0), 2)>> >>
           /\ OutCell.cell = out
           /\ (mode = "prove") =>
                 /\ layouter.advice[seed_a] = Some(SeedA)
                 /\ layouter.advice[seed_b] = Some(SeedB)
C4_Witness ==
    /\ layout = "example3" /\ pc = "done" /\ result = "Ok" /\ N = ShippedN
    /\ Len(InstanceCopies) = 3

\* C5: in the single-column layout, for every N >= 3, after assign(N) no
\* enabled row r has a window r, r+1, r+2 reaching past row N-1: rows N-2
\* and N-1 never have the selector enabled.
C5_NoWindowPastLastRow ==
    (layout = "example3" /\ N >= 3 /\ (pc = "expose_out" \/ Completed)) =>
        /\ \A r \in layouter.selectors : r + 2 <= N - 1
        /\ (N - 2) \notin layouter.selectors /\ (N - 1) \notin layouter.selectors

\* C6: in the multi-column layout with an instance column, whenever a
\* sub-operation invoked during synthesize has failed, synthesize returns a
\* failure rather than Ok.
C6_ErrorsPropagate ==
    (layout = "example2" /\ Done /\ fault # 0 /\ layouter.ncalls >= fault) => result # "Ok"

\* C7: in the multi-column layout, with an Unknown seed and a backend that
\* requires values, the run ends in assign_first_row with Error::Synthesis
\* returned by synthesize, the selector being enabled at row 0; no cell of
\* row 0 ever holds a Known value other than its seed.
C7_UnknownSeedIsMissingWitness ==
    (MultiColumn /\ mode = "prove" /\ (a = None \/ b = None)) =>
        /\ pc \in {"configure", "first_row", "done"}
        /\ (pc = "done") => (result = "Synthesis" /\ 0 \in layouter.selectors)
        /\ \A cell \in DOMAIN layouter.advice :
              /\ cell.row = 0
              /\ layouter.advice[cell] # None
              /\ layouter.advice[cell] = <<a, b, c_val(a, b)>>[cell.column.index + 1]
C7_Witness ==
    /\ layout = "example2" /\ mode = "prove" /\ a = Some(1) /\ b = None
    /\ pc = "done" /\ result = "Synthesis"
    /\ DOMAIN layouter.advice = {Cell(AdviceCol(0), 0)}

\* C8: every copy constraint registered during assignment joins cells of
\* columns that configure put in the equality-enabled set (a, b, c and the
\* instance column in the multi-column layout; the advice column and the
\* instance column in the single-column layout); no InvalidEquality error
\* is returned or dropped.
C8_CopiesOnEqualityColumns ==
    /\ (pc # "configure") =>
          meta.equality =
              IF layout = "example1" THEN {AdviceCol(0), AdviceCol(1), AdviceCol(2)}
              ELSE IF layout = "example2"
                   THEN {AdviceCol(0), AdviceCol(1), AdviceCol(2), InstanceCol(0)}
                   ELSE {AdviceCol(0), InstanceCol(0)}
    /\ \A k \in 1 .. Len(layouter.copies) :
          /\ layouter.copies[k][1].column \in meta.equality
          /\ layouter.copies[k][2].column \in meta.equality
    /\ result # "InvalidEquality"
    /\ ~swallowed
C8_Witness ==
    /\ layout = "example2" /\ pc = "done" /\ result = "Ok" /\ N = ShippedN
    /\ Len(layouter.copies) = 3 + 2 * (N - 3)

\* C9: configure yields the same configuration whatever the circuit's
\* seeds are (Known, or absent as after without_witnesses): the same
\* columns, the same equality-enabled set, one selector and exactly one
\* gate "add" with constraint selector * (a + b - c).
C9_ConfigureIgnoresWitness ==
    (pc # "configure") =>
        /\ meta =
              IF layout = "example1"
              THEN [num_advice |-> 3, num_instance |-> 0, num_selectors |-> 1,
                    equality |-> {AdviceCol(0), AdviceCol(1), AdviceCol(2)},
                    gates |-> <<[name |-> "add", selector |-> 0,
                                 a |-> Query(AdviceCol(0), 0), b |-> Query(AdviceCol(1), 0),
                                 c |-> Query(AdviceCol(2), 0)]>>]
              ELSE IF layout = "example2"
              THEN [num_advice |-> 3, num_instance |-> 1, num_selectors |-> 1,
                    equality |-> {AdviceCol(0), AdviceCol(1), AdviceCol(2), InstanceCol(0)},
                    gates |-> <<[name |-> "add", selector |-> 0,
                                 a |-> Query(AdviceCol(0), 0), b |-> Query(AdviceCol(1), 0),
                                 c |-> Query(AdviceCol(2), 0)]>>]
              ELSE [num_advice |-> 1, num_instance |-> 1, num_selectors |-> 1,
                    equality |-> {AdviceCol(0), InstanceCol(0)},
                    gates |-> <<[name |-> "add", selector |-> 0,
                                 a |-> Query(AdviceCol(0), 0), b |-> Query(AdviceCol(0), 1),
                                 c |-> Query(AdviceCol(0), 2)]>>]
        /\ config.selector = 0
        /\ config.advice = IF layout = "example3" THEN <<AdviceCol(0)>>
                           ELSE <<AdviceCol(0), AdviceCol(1), AdviceCol(2)>>
        /\ \A x \in 0 .. 2 : \A y \in 0 .. 2 : \A z \in 0 .. 4 :
              /\ (gate_poly(1, x, y, z) = 0) <=> (z = FAdd(x, y))
              /\ gate_poly(0, x, y, z) = 0
C9_Witness ==
    /\ layout = "example2" /\ mode = "keygen" /\ a = None /\ b = None
    /\ pc = "done" /\ result = "Ok" /\ Len(meta.gates) = 1

\* C10: a second expose_public call with the same cell and the same
\* instance row leaves the copy constraints satisfied by exactly the same
\* public inputs as before it, and changes no assigned cell value.
C10_ExposeTwiceIdempotent ==
    [][(/\ extra' = extra + 1
        /\ \E k \in 1 .. Len(exposed) : exposed[k] = exposed'[Len(exposed')])
       => /\ PermutationHolds(layouter') <=> PermutationHolds(layouter)
          /\ ExposureHolds' <=> ExposureHolds
          /\ layouter'.advice = layouter.advice
          /\ result' = result]_vars
C10_Witness ==
    /\ layout = "example2" /\ mode = "prove" /\ extra >= 1 /\ N = ShippedN
    /\ instance = <<1, 1, ShippedOut>> /\ a = Some(1) /\ b = Some(1)
    /\ exposed[Len(exposed)] = exposed[3]
    /\ ExposureHolds

ColA == AdviceCol(0)
ColB == AdviceCol(1)
ColC == AdviceCol(2)
\* the unordered pair {c1, c2} is among the registered copy constraints
HasCopy(c1, c2) ==
    \E k \in 1 .. Len(layouter.copies) :
        layouter.copies[k] = <<c1, c2>> \/ layouter.copies[k] = <<c2, c1>>
\* both cells of every copy constraint hold the same Known value
CopiesEqualKnown ==
    \A k \in 1 .. Len(layouter.copies) :
        /\ \A j \in 1 .. 2 : IsInstance(layouter.copies[k][j]) \/ Known(layouter.copies[k][j])
        /\ CellValue(layouter, layouter.copies[k][1]) = CellValue(layouter, layouter.copies[k][2])
\* the public inputs are [a0, b0, final output] (example1 has none)
PublicInputsMatch ==
    layout = "example1" \/ instance = <<SeedA, SeedB, AdviceValue(layouter, prev_c.cell)>>

RowsUpTo(last) == {Cell(AdviceCol(c), r) : c \in 0 .. 2, r \in 0 .. last}

\* C12 (as stated): the multi-column pass with step count N fills rows
\* 0 .. N-1, the selector is enabled on each of them, and the output cell is
\* the c cell of row N-1.
C12_FillsRowsToNMinus1 ==
    (Completed /\ MultiColumn) =>
        /\ DOMAIN layouter.advice = RowsUpTo(N - 1)
        /\ layouter.selectors = 0 .. (N - 1)
        /\ prev_c.cell = Cell(ColC, N - 1)

\* C12 (amended): the multi-column pass with step count N fills rows
\* 0 .. N-3 (rows 0 .. 7 for N = 10): row 0 is the initial row, rows
\* 1 .. N-3 are step rows, the selector is enabled on each of these rows,
\* and the output cell is the c cell of row N-3.
C12_FillsRowsToNMinus3 ==
    (Completed /\ MultiColumn) =>
        /\ DOMAIN layouter.advice = RowsUpTo(N - 3)
        /\ layouter.selectors = 0 .. (N - 3)
        /\ layouter.next_row = N - 2
        /\ prev_c.cell = Cell(ColC, N - 3)
        /\ prev_a.cell = Cell(ColA, 0)
C12_Witness ==
    /\ layout = "example2" /\ pc = "done" /\ result = "Ok" /\ N = ShippedN
    /\ layouter.selectors = 0 .. 7
    /\ prev_c.cell = Cell(ColC, 7)

Advice(r) == Cell(AdviceCol(0), r)
Assigned3 == layout = "example3" /\ (pc = "expose_out" \/ Completed)

\* C13: in the single-column layout, for every N >= 3, after assign(N) the
\* selector is enabled at row r-2 for every computed row r in 2 .. N-1, the
\* value at row r is the sum of the values at rows r-2 and r-1, and no copy
\* constraint joins two advice cells.
C13_EveryComputedRowIsGated ==
    (Assigned3 /\ N >= 3) =>
        /\ \A r \in 2 .. (N - 1) :
              /\ (r - 2) \in layouter.selectors
              /\ Advice(r) \in DOMAIN layouter.advice
              /\ (mode = "prove") =>
                    /\ Known(Advice(r - 2)) /\ Known(Advice(r - 1)) /\ Known(Advice(r))
                    /\ layouter.advice[Advice(r)][1] =
                          FAdd(layouter.advice[Advice(r - 2)][1], layouter.advice[Advice(r - 1)][1])
        /\ \A k \in 1 .. Len(layouter.copies) :
              IsInstance(layouter.copies[k][1]) \/ IsInstance(layouter.copies[k][2])
C13_Witness ==
    /\ layout = "example3" /\ mode = "prove" /\ pc = "expose_out" /\ N = ShippedN
    /\ layouter.selectors = 0 .. 7
    /\ instance[1] = 1 /\ instance[2] = 1
    /\ layouter.advice[Advice(9)] = Some(ShippedOut)

\* C14: in the single-column layout a complete pass registers exactly three
\* copy constraints, (advice,0)=(instance,0), (advice,1)=(instance,1) and
\* (advice,N-1)=(instance,2); the two seed constraints exist as soon as
\* assign returns, the only expose_public call is the one for the output,
\* and no copy constraint joins two advice cells.
C14_ExactlyThreeInstanceCopies ==
    (layout = "example3" /\ N >= 2) =>
        /\ (pc = "expose_out") =>
              /\ layouter.copies = << <<Advice(0), Cell(InstanceCol(0), 0)>>,
                                      <<Advice(1), Cell(InstanceCol(0), 1)>> >>
              /\ exposed = <<>>
        /\ Completed =>
              /\ layouter.copies = << <<Advice(0), Cell(InstanceCol(0), 0)>>,
                                      <<Advice(1), Cell(InstanceCol(0), 1)>>,
                                      <<Advice(N - 1), Cell(InstanceCol(0), 2)>> >>
              /\ exposed = << <<Advice(N - 1), 2>> >>
C14_Witness ==
    /\ layout = "example3" /\ pc = "done" /\ result = "Ok" /\ N = ShippedN
    /\ Len(layouter.copies) = 3 /\ Len(exposed) = 1

\* C15: during one assignment pass every advice cell is written at most
\* once, a written value never changes, an enabled selector row stays
\* enabled, and the pass writes a, b, c of rows 0 .. N-3 in the multi-column
\* layout and rows 0 .. N-1 of the advice column in the single-column layout.
C15_CellsWrittenOnce ==
    /\ [](Cardinality(DOMAIN layouter.advice) = layouter.nwrites)
    /\ [](Completed =>
            IF MultiColumn THEN DOMAIN layouter.advice = RowsUpTo(N - 3)
            ELSE (N >= 2) => DOMAIN layouter.advice = {Advice(r) : r \in 0 .. (N - 1)})
    /\ [][/\ \A cell \in DOMAIN layouter.advice :
               /\ cell \in DOMAIN layouter'.advice
               /\ layouter'.advice[cell] = layouter.advice[cell]
          /\ layouter.selectors \subseteq layouter'.selectors]_vars
C15_Witness ==
    /\ layout = "example3" /\ mode = "prove" /\ pc = "done" /\ result = "Ok" /\ N = ShippedN
    /\ layouter.nwrites = 10 /\ Cardinality(DOMAIN layouter.advice) = 10

\* Values forced by the declared constraints.  F maps cells to the value
\* every satisfying table must give them; one round adds the other end of
\* each copy constraint with a forced end, and the third cell of each enabled
\* gate window with two forced cells.
GateCells(g, row) ==
    << Cell(g.a.column, row + g.a.rotation),
       Cell(g.b.column, row + g.b.rotation),
       Cell(g.c.column, row + g.c.rotation) >>
Windows == {GateCells(meta.gates[k], row) : k \in 1 .. Len(meta.gates), row \in layouter.selectors}
CopyPairs == {layouter.copies[k] : k \in 1 .. Len(layouter.copies)}
Derived(F, W, C) ==
    LET known == DOMAIN F
    IN {<<pr[2], F[pr[1]]>> : pr \in {q \in C : q[1] \in known /\ q[2] \notin known}}
       \cup {<<pr[1], F[pr[2]]>> : pr \in {q \in C : q[2] \in known /\ q[1] \notin known}}
       \cup {<<w[3], FAdd(F[w[1]], F[w[2]])>> :
                w \in {v \in W : v[1] \in known /\ v[2] \in known /\ v[3] \notin known}}
       \cup {<<w[1], FSub(F[w[3]], F[w[2]])>> :
                w \in {v \in W : v[2] \in known /\ v[3] \in known /\ v[1] \notin known}}
       \cup {<<w[2], FSub(F[w[3]], F[w[1]])>> :
                w \in {v \in W : v[1] \in known /\ v[3] \in known /\ v[2] \notin known}}
RECURSIVE Propagate(_, _, _)
Propagate(F, W, C) ==
    LET D == Derived(F, W, C)
    IN IF D = {} THEN F
       ELSE Propagate([cell \in DOMAIN F \cup {d[1] : d \in D} |->
                          IF cell \in DOMAIN F THEN F[cell]
                          ELSE (CHOOSE d \in D : d[1] = cell)[2]],
                      W, C)
\* what public inputs x (row 0) and y (row 1) alone force
ForcedBySeeds ==
    Propagate([cell \in {Cell(InstanceCol(0), 0), Cell(InstanceCol(0), 1)} |->
                  InstanceValue(cell.row)], Windows, CopyPairs)

\* C16: in the layouts with an instance column, N >= 3, under public
\* inputs [x, y, z], the gate at the
\* enabled rows and the accumulated copy constraints force, from public
\* inputs x and y alone, the value of the advice cell that is copy-bound to
\* instance row 2, and that value is the N-th term of x, y; so every
\* satisfying table has z equal to that term (55 for 1, 1 and N = 10) and a
\* table the verifier accepts has it too.
C16_OutputIsPinned ==
    (Completed /\ layout # "example1" /\ N >= 3 /\ Len(instance) = 3) =>
        /\ \E q \in CopyPairs :
              /\ q[2] = Cell(InstanceCol(0), 2)
              /\ ~IsInstance(q[1])
              /\ q[1] \in DOMAIN ForcedBySeeds
              /\ ForcedBySeeds[q[1]] = Nth(instance[1], instance[2], N)
        /\ (pc = "verified" /\ verdict = "satisfied") =>
              instance[3] = Nth(instance[1], instance[2], N)
        /\ (N = ShippedN /\ instance[1] = 1 /\ instance[2] = 1) =>
              Nth(instance[1], instance[2], N) = ShippedOut
C16_Witness ==
    /\ layout = "example2" /\ pc = "verified" /\ N = ShippedN
    /\ instance = <<1, 1, ShippedOut + 1>> /\ verdict # "satisfied"
    /\ ForcedBySeeds[Cell(AdviceCol(2), 7)] = ShippedOut

\* C17: in single-column assign(nrows) the subtraction nrows - 2 is never
\* evaluated with nrows < 2; for nrows in {0, 1, 2} the loop body never
\* runs, exactly rows 0 and 1 are written, the selector is enabled at
\* exactly rows 0 and 1, and the returned cell is the row-1 cell.
C17_SubtractionNeverUnderflows ==
    /\ ~layouter.underflow
    /\ (Assigned3 /\ N <= 2) =>
          /\ DOMAIN layouter.advice = {Advice(0), Advice(1)}
          /\ layouter.nwrites = 2
          /\ layouter.selectors = {0, 1}
          /\ out_cell.cell = Advice(1)
          /\ out_cell.value = layouter.advice[Advice(1)]
          /\ (mode = "prove") => out_cell.value = Some(instance[2])
C17_Witness ==
    /\ layout = "example3" /\ N = 0 /\ pc = "expose_out"
    /\ layouter.selectors = {0, 1} /\ out_cell.cell = Advice(1)
====
